---- MODULE Spec2Model ----
(***************************************************************************)
(* Hydro block control (src/control.c) and its shared telemetry cache and  *)
(* external-signal reader (src/app.c).                                     *)
(*                                                                         *)
(* Execution contexts:                                                     *)
(*   - task context: hydro_init, hydro_enable and the BLE external-signal  *)
(*     handler of sl_bt_on_event; one thread, position held in pc;         *)
(*   - sleeptimer interrupt: sample_cb, position held in isr; it preempts  *)
(*     the task between any two statements and runs to completion before  *)
(*     the task resumes;                                                   *)
(*   - GPIO interrupt: flow_irq_cb, one atomic increment, may arrive at    *)
(*     any point (also between two statements of sample_cb, outside its    *)
(*     __disable_irq window).                                              *)
(* Program counters are named after the source line they are about to      *)
(* execute.                                                                *)
(***************************************************************************)
EXTENDS Integers, FiniteSets, Sequences, TLC

\* ---- bounds of the exploration ------------------------------------------
MaxPulses == 2      \* flow edges delivered in one run
MaxPasses == 4      \* sampling passes started in one run
MaxPeriods == 6     \* cap of the passes-since-enable ghost counter

\* ---- program constants ---------------------------------------------------
\* Modulus of the unsigned pulse counters.  The source type is uint32_t
\* (2^32); TLC's integers are 32-bit signed, so the counters are held modulo
\* 2^30, the largest power of two for which cur - last + PulseMod is
\* representable.  Every value explored lies far below either modulus.
PulseMod == 1073741824
FLOW_HZ_PER_LPM_X100 == 571  \* FLOW_HZ_PER_LPM 5.71, scaled by 100
MIN_LPM_AFTER_X10 == 2       \* s_min_lpm_after 0.2, scaled by 10
s_min_after_s == 3           \* grace period in sampling passes
SecondsCap == 250            \* saturation of seconds_since_on
SIG_FLOW == 1
SIG_ERR == 2
SIG_SAMPLE == 1

\* fault codes passed to shared_set_err
\* number of values of a uint16_t (the cast of line 235)
U16Mod == 65536

ErrOk == 0
ErrDryRun == 1
ErrUnexpectedFlow == 2

\* ghost marker: the pass made no call of shared_set_err
NoWrite == 9

VARIABLES
  \* control.c statics
  inited,             \* hydro_init: static bool inited
  s_pulses,           \* volatile uint32_t s_pulses
  s_last_pulses,      \* uint32_t s_last_pulses
  s_lpm,              \* double s_lpm, held as the pulse delta dp (s_lpm = dp / 5.71)
  s_enabled,          \* bool s_enabled
  s_error,            \* uint8_t s_error
  seconds_since_on,   \* sample_cb: static uint8_t seconds_since_on
  tmr_running,        \* s_sample_tmr is started
  \* pump hardware
  timer0_en,          \* TIMER0 (PWM generator) enabled
  route_en,           \* CC0 routed to PUMP_PIN_PWM
  pin_pwm,            \* DOUT of PUMP_PIN_PWM (I1A)
  pin_low,            \* DOUT of PUMP_PIN_LOW (I1B)
  \* app.c shared telemetry and BLE external signal
  g_flow_x100,
  g_err,
  extsig,             \* pending external-signal bits
  \* task context
  pc,                 \* position of the task
  on,                 \* hydro_enable: argument
  sc,                 \* hydro_enable: sl_status_t sc of the timer start
  flow,               \* external-signal handler: local flow
  err,                \* external-signal handler: local err
  \* sleeptimer interrupt context
  isr,                \* position inside sample_cb, "none" outside
  p,                  \* sample_cb: local snapshot p
  \* observation (history) variables
  nPass,              \* passes started so far
  sinceEn,            \* passes completed since s_enabled last became true
  zeroFlow,           \* every pass since then measured dp = 0
  wrote,              \* value the running/latest pass gave shared_set_err
  prevWrote,          \* same, for the pass before it
  evalEnabled,        \* s_enabled as read by the latest fault evaluation
  published,          \* (flow, err) pairs exposed at the end of a pass
  readDone,           \* the handler has fetched both flow and err
  ret,                \* how the latest hydro_enable call returned
  lastOn,             \* argument of the latest hydro_enable call that returned
  \* observer registration (control.c statics) and hydro_set_sink parameters
  s_sink,             \* hydro_sink_t s_sink, 0 is the null pointer
  s_sink_user,        \* void *s_sink_user
  cb,                 \* hydro_set_sink: parameter cb
  user,               \* hydro_set_sink: parameter user
  \* PWM generator output
  cc_out,             \* level TIMER0 CC0 holds while the timer is stopped
  \* observation (history) variables
  sinkArgs,           \* arguments of the sink call of the running/latest pass
  nEdges,             \* flow edges delivered so far
  edgesSince,         \* edges since the latest snapshot or baseline
  trueDelta,          \* edges that arrived in the period of the latest pass
  drift,              \* computed deltas minus edges, summed since the baseline
  baseTaken,          \* line 279 has run since s_enabled last became true
  raised,             \* external-signal calls made by the running/latest pass
  flowVer,            \* pass that wrote g_flow_x100 last
  errVer,             \* pass that evaluated the fault last
  sigVer,             \* pass that raised the external signal last
  initCount,          \* times hydro_init configured the pins and the interrupt
  secVer              \* pass that updated seconds_since_on last

hwvars == <<timer0_en, route_en, pin_pwm, pin_low>>
samplervars == <<s_last_pulses, s_lpm, seconds_since_on, p>>
sharedvars == <<g_flow_x100, g_err, extsig>>
readervars == <<flow, err, readDone>>
callghost == <<ret, lastOn>>
passghost == <<nPass, sinceEn, zeroFlow, wrote, prevWrote, evalEnabled, published>>

vars == <<inited, s_pulses, s_last_pulses, s_lpm, s_enabled, s_error,
          seconds_since_on, tmr_running, timer0_en, route_en, pin_pwm,
          pin_low, g_flow_x100, g_err, extsig, pc, on, sc, flow, err, isr, p,
          nPass, sinceEn, zeroFlow, wrote, prevWrote, evalEnabled, published,
          readDone, ret, lastOn, s_sink, s_sink_user, cb, user, cc_out,
          sinkArgs, nEdges, edgesSince, trueDelta, drift, baseTaken, raised,
          flowVer, errVer, sigVer, initCount, secVer>>

\* ---- pure helpers ---------------------------------------------------------

\* mutant of Delta: a difference that does not wrap
Delta_NoWrap(cur, last) == IF cur >= last THEN cur - last ELSE 0

\* uint32_t difference p - s_last_pulses
Delta(cur, last) == (cur - last + PulseMod) % PulseMod

\* s_lpm < s_min_lpm_after, with s_lpm = dp / 5.71
BelowMin(dp) == dp * 100 * 10 < MIN_LPM_AFTER_X10 * FLOW_HZ_PER_LPM_X100

\* s_lpm > s_min_lpm_after
AboveMin(dp) == dp * 100 * 10 > MIN_LPM_AFTER_X10 * FLOW_HZ_PER_LPM_X100

\* integer part of s_lpm * 100.0 + 0.5, the operand of the cast of line 235
FlowX100(dp) ==
  (2 * dp * 100 * 100 + FLOW_HZ_PER_LPM_X100) \div (2 * FLOW_HZ_PER_LPM_X100)

\* (uint16_t)x for a double x with integer part v: out of the uint16_t range the
\* conversion is undefined; builds either keep the low 16 bits or saturate
Uint16Cast(v) == IF v < U16Mod THEN {v} ELSE {v % U16Mod, U16Mod - 1}

\* ---- initial state: the static initialisers -----------------------------
Init ==
  /\ inited = FALSE
  /\ s_pulses = 0
  /\ s_last_pulses = 0
  /\ s_lpm = 0
  /\ s_enabled = FALSE
  /\ s_error = 0
  /\ seconds_since_on = 0
  /\ tmr_running = FALSE
  /\ timer0_en = FALSE
  /\ route_en = FALSE
  /\ pin_pwm = 0
  /\ pin_low = 0
  /\ g_flow_x100 = 0
  /\ g_err = 0
  /\ extsig = 0
  /\ pc = "idle"
  /\ on = FALSE
  /\ sc = "none"
  /\ flow = 0
  /\ err = 0
  /\ isr = "none"
  /\ p = 0
  /\ nPass = 0
  /\ sinceEn = 0
  /\ zeroFlow = TRUE
  /\ wrote = NoWrite
  /\ prevWrote = NoWrite
  /\ evalEnabled = FALSE
  /\ published = {<<0, 0>>}
  /\ readDone = FALSE
  /\ ret = "none"
  /\ lastOn = "none"
  /\ s_sink = 0
  /\ s_sink_user = 0
  /\ cb = 0
  /\ user = 0
  /\ cc_out = "low"
  /\ sinkArgs = <<>>
  /\ nEdges = 0
  /\ edgesSince = 0
  /\ trueDelta = 0
  /\ drift = 0
  /\ baseTaken = FALSE
  /\ raised = 0
  /\ flowVer = 0
  /\ errVer = 0
  /\ sigVer = 0
  /\ initCount = 0
  /\ secVer = 0

\* Baselines and pulse deltas of an enabled period that is under way: the
\* counter stands just below its wrap with no edge so far, or it has run
\* through the wrap with the smallest delta whose flow exceeds a uint16_t
WideStarts == {<<PulseMod - 1, 0>>, <<PulseMod - 1, 3743>>}

\* State after hydro_init, a long run of edges and of passes that saw no flow,
\* and a hydro_enable(true) that has returned: the pump runs, the sampling
\* timer is started, no pass of this enabled period has fired yet
WideInit ==
  /\ \E st \in WideStarts :
       /\ s_last_pulses = st[1]
       /\ s_pulses = (st[1] + st[2]) % PulseMod
       /\ edgesSince = st[2]
  /\ inited = TRUE
  /\ s_lpm = 0
  /\ s_enabled = TRUE
  /\ s_error = 0
  /\ seconds_since_on = 0
  /\ tmr_running = TRUE
  /\ timer0_en = TRUE
  /\ route_en = TRUE
  /\ pin_pwm = 0
  /\ pin_low = 0
  /\ g_flow_x100 = 0
  /\ g_err = 0
  /\ extsig = 0
  /\ pc = "idle"
  /\ on = TRUE
  /\ sc = "ok"
  /\ flow = 0
  /\ err = 0
  /\ isr = "none"
  /\ p = 0
  /\ nPass = MaxPasses - 2
  /\ sinceEn = 0
  /\ zeroFlow = TRUE
  /\ wrote = NoWrite
  /\ prevWrote = NoWrite
  /\ evalEnabled = FALSE
  /\ published = {<<0, 0>>}
  /\ readDone = FALSE
  /\ ret = "done"
  /\ lastOn = "on"
  /\ s_sink = 0
  /\ s_sink_user = 0
  /\ cb = 0
  /\ user = 0
  /\ cc_out = "low"
  /\ sinkArgs = <<>>
  /\ nEdges = 0
  /\ trueDelta = 0
  /\ drift = 0
  /\ baseTaken = TRUE
  /\ raised = 1
  /\ flowVer = MaxPasses - 2
  /\ errVer = MaxPasses - 2
  /\ sigVer = MaxPasses - 2
  /\ initCount = 1
  /\ secVer = MaxPasses - 2

\* the user pointer a caller registers together with sink k
UserOf(k) == k

\* an observer registered by an earlier caller, not one of SinkIds
OtherSink == 2

\* State after hydro_init and a hydro_set_sink call that registered OtherSink
\* with its user pointer
SwapInit ==
  /\ inited = TRUE
  /\ s_pulses = 0
  /\ s_last_pulses = 0
  /\ s_lpm = 0
  /\ s_enabled = FALSE
  /\ s_error = 0
  /\ seconds_since_on = 0
  /\ tmr_running = FALSE
  /\ timer0_en = FALSE
  /\ route_en = FALSE
  /\ pin_pwm = 0
  /\ pin_low = 0
  /\ g_flow_x100 = 0
  /\ g_err = 0
  /\ extsig = 0
  /\ pc = "idle"
  /\ on = FALSE
  /\ sc = "none"
  /\ flow = 0
  /\ err = 0
  /\ isr = "none"
  /\ p = 0
  /\ nPass = 0
  /\ sinceEn = 0
  /\ zeroFlow = TRUE
  /\ wrote = NoWrite
  /\ prevWrote = NoWrite
  /\ evalEnabled = FALSE
  /\ published = {<<0, 0>>}
  /\ readDone = FALSE
  /\ ret = "none"
  /\ lastOn = "none"
  /\ s_sink = OtherSink
  /\ s_sink_user = UserOf(OtherSink)
  /\ cb = 0
  /\ user = 0
  /\ cc_out = "low"
  /\ sinkArgs = <<>>
  /\ nEdges = 0
  /\ edgesSince = 0
  /\ trueDelta = 0
  /\ drift = 0
  /\ baseTaken = FALSE
  /\ raised = 0
  /\ flowVer = 0
  /\ errVer = 0
  /\ sigVer = 0
  /\ initCount = 1
  /\ secVer = 0

\* State in the middle of a long enabled interval that never saw an edge: the
\* passes so far have brought seconds_since_on to two below its cap and have
\* published the dry-run fault, the last signal has been handled
LongRunInit ==
  /\ inited = TRUE
  /\ s_pulses = 0
  /\ s_last_pulses = 0
  /\ s_lpm = 0
  /\ s_enabled = TRUE
  /\ s_error = 0
  /\ seconds_since_on = SecondsCap - 2
  /\ tmr_running = TRUE
  /\ timer0_en = TRUE
  /\ route_en = TRUE
  /\ pin_pwm = 0
  /\ pin_low = 0
  /\ g_flow_x100 = 0
  /\ g_err = ErrDryRun
  /\ extsig = 0
  /\ pc = "idle"
  /\ on = TRUE
  /\ sc = "ok"
  /\ flow = 0
  /\ err = ErrDryRun
  /\ isr = "none"
  /\ p = 0
  /\ nPass = MaxPasses - 3
  /\ sinceEn = MaxPeriods
  /\ zeroFlow = TRUE
  /\ wrote = ErrDryRun
  /\ prevWrote = ErrDryRun
  /\ evalEnabled = TRUE
  /\ published = {<<0, ErrOk>>, <<0, ErrDryRun>>}
  /\ readDone = TRUE
  /\ ret = "done"
  /\ lastOn = "on"
  /\ s_sink = 0
  /\ s_sink_user = 0
  /\ cb = 0
  /\ user = 0
  /\ cc_out = "low"
  /\ sinkArgs = <<>>
  /\ nEdges = 0
  /\ edgesSince = 0
  /\ trueDelta = 0
  /\ drift = 0
  /\ baseTaken = TRUE
  /\ raised = 1
  /\ flowVer = MaxPasses - 3
  /\ errVer = MaxPasses - 3
  /\ sigVer = MaxPasses - 3
  /\ initCount = 1
  /\ secVer = MaxPasses - 3

\* the task runs only while no interrupt handler is active
TaskRuns == isr = "none"

\* ---- GPIO interrupt -------------------------------------------------------

\* mutant of Incr: an edge is counted twice
Incr_Twice(n) == (n + 2) % PulseMod

\* line 174: s_pulses++ on a uint32_t
Incr(n) == (n + 1) % PulseMod

\* flow_irq_cb: s_pulses++
flow_irq_cb ==
  /\ inited
  /\ nEdges < MaxPulses
  /\ s_pulses' = Incr(s_pulses)
  /\ nEdges' = nEdges + 1
  /\ edgesSince' = edgesSince + 1
  /\ UNCHANGED <<inited, s_last_pulses, s_lpm, s_enabled, s_error,
                 seconds_since_on, tmr_running, hwvars, sharedvars, pc, on,
                 sc, readervars, isr, p, passghost, callghost>>
  /\ UNCHANGED <<s_sink, s_sink_user, cb, user, sinkArgs, cc_out, trueDelta,
                 drift, baseTaken, raised, flowVer, errVer, sigVer,
                 initCount, secVer>>

\* ---- hydro_init -----------------------------------------------------------

\* caller of hydro_init (app_init, or any later caller)
hydro_init_call ==
  /\ TaskRuns
  /\ pc = "idle"
  /\ pc' = "L256"
  /\ UNCHANGED <<inited, s_pulses, s_last_pulses, s_lpm, s_enabled, s_error,
                 seconds_since_on, tmr_running, hwvars, sharedvars, on, sc,
                 readervars, isr, p, passghost, callghost>>
  /\ UNCHANGED <<s_sink, s_sink_user, cb, user, sinkArgs, cc_out, nEdges,
                 edgesSince, trueDelta, drift, baseTaken, raised, flowVer,
                 errVer, sigVer, initCount, secVer>>

\* mutant of AlreadyInited: the guard of line 256 is missing
AlreadyInited_NoGuard(done) == FALSE

\* line 256: if (inited) return
AlreadyInited(done) == done

\* hydro_init, lines 256-260: pump_gpio_init, flow_gpio_init, once
hydro_init ==
  /\ TaskRuns
  /\ pc = "L256"
  /\ IF AlreadyInited(inited)
       THEN /\ pc' = "L256ret"
            /\ UNCHANGED <<inited, pin_pwm, pin_low, initCount>>
       ELSE /\ pc' = "idle"
            /\ inited' = TRUE
            /\ pin_low' = 0
            /\ pin_pwm' = 0
            /\ initCount' = initCount + 1
  /\ UNCHANGED <<s_pulses, s_last_pulses, s_lpm, s_enabled, s_error,
                 seconds_since_on, tmr_running, timer0_en, route_en,
                 sharedvars, on, sc, readervars, isr, p, passghost, callghost>>
  /\ UNCHANGED <<s_sink, s_sink_user, cb, user, sinkArgs, cc_out, nEdges,
                 edgesSince, trueDelta, drift, baseTaken, raised, flowVer,
                 errVer, sigVer, secVer>>

\* line 256: the return of a repeated hydro_init call
hydro_init_return ==
  /\ TaskRuns
  /\ pc = "L256ret"
  /\ pc' = "idle"
  /\ UNCHANGED <<inited, s_pulses, s_last_pulses, s_lpm, s_enabled, s_error,
                 seconds_since_on, tmr_running, hwvars, sharedvars, on, sc,
                 readervars, isr, p, passghost, callghost>>
  /\ UNCHANGED <<s_sink, s_sink_user, cb, user, sinkArgs, cc_out, nEdges,
                 edgesSince, trueDelta, drift, baseTaken, raised, flowVer,
                 errVer, sigVer, initCount, secVer>>

\* ---- hydro_enable ---------------------------------------------------------

\* caller of hydro_enable (sl_bt_on_event, attribute write of pump_enable)
hydro_enable_call ==
  /\ TaskRuns
  /\ pc = "idle"
  /\ inited
  /\ \E req \in BOOLEAN : on' = req
  /\ sc' = "none"
  /\ ret' = "none"
  /\ UNCHANGED lastOn
  /\ pc' = "L268"
  /\ UNCHANGED <<inited, s_pulses, s_last_pulses, s_lpm, s_enabled, s_error,
                 seconds_since_on, tmr_running, hwvars, sharedvars,
                 readervars, isr, p, passghost>>
  /\ UNCHANGED <<s_sink, s_sink_user, cb, user, sinkArgs, cc_out, nEdges,
                 edgesSince, trueDelta, drift, baseTaken, raised, flowVer,
                 errVer, sigVer, initCount, secVer>>

\* name of a hydro_enable argument in lastOn
OnName(b) == IF b THEN "on" ELSE "off"

\* mutant of AlreadyInState: the early return of line 268 is missing
AlreadyInState_NoGuard(req, en) == FALSE

\* mutant of AlreadyInState: only a repeated disable returns early
AlreadyInState_OffOnly(req, en) == ~req /\ ~en

\* line 268: on == s_enabled
AlreadyInState(req, en) == req = en

\* lines 268-270: early return, else s_enabled = on
hydro_enable_L268 ==
  /\ TaskRuns
  /\ pc = "L268"
  /\ IF AlreadyInState(on, s_enabled)
       THEN /\ pc' = "idle"
            /\ ret' = "noop"
            /\ lastOn' = OnName(on)
            /\ UNCHANGED <<s_enabled, sinceEn, zeroFlow, baseTaken>>
       ELSE /\ s_enabled' = on
            /\ baseTaken' = IF on THEN FALSE ELSE baseTaken
            /\ pc' = IF on THEN "L158" ELSE "L146"
            /\ sinceEn' = IF on THEN 0 ELSE sinceEn
            /\ zeroFlow' = IF on THEN TRUE ELSE zeroFlow
            /\ UNCHANGED <<ret, lastOn>>
  /\ UNCHANGED <<inited, s_pulses, s_last_pulses, s_lpm, s_error,
                 seconds_since_on, tmr_running, hwvars, sharedvars, on, sc,
                 readervars, isr, p, nPass, wrote, prevWrote, evalEnabled,
                 published>>
  /\ UNCHANGED <<s_sink, s_sink_user, cb, user, sinkArgs, cc_out, nEdges,
                 edgesSince, trueDelta, drift, raised, flowVer, errVer,
                 sigVer, initCount, secVer>>

\* pump_on(true), line 158: I1B = 0
pump_on_L158 ==
  /\ TaskRuns
  /\ pc = "L158"
  /\ pin_low' = 0
  /\ pc' = "L159"
  /\ UNCHANGED <<inited, s_pulses, s_last_pulses, s_lpm, s_enabled, s_error,
                 seconds_since_on, tmr_running, timer0_en, route_en, pin_pwm,
                 sharedvars, on, sc, readervars, isr, p, passghost, callghost>>
  /\ UNCHANGED <<s_sink, s_sink_user, cb, user, sinkArgs, cc_out, nEdges,
                 edgesSince, trueDelta, drift, baseTaken, raised, flowVer,
                 errVer, sigVer, initCount, secVer>>

\* pump_on(true), line 159: pwm_hw_start
pwm_hw_start ==
  /\ TaskRuns
  /\ pc = "L159"
  /\ pin_pwm' = 0
  /\ route_en' = TRUE
  /\ timer0_en' = TRUE
  /\ cc_out' = "low"
  /\ pc' = "L276"
  /\ UNCHANGED <<inited, s_pulses, s_last_pulses, s_lpm, s_enabled, s_error,
                 seconds_since_on, tmr_running, pin_low, sharedvars, on, sc,
                 readervars, isr, p, passghost, callghost>>
  /\ UNCHANGED <<s_sink, s_sink_user, cb, user, sinkArgs, nEdges, edgesSince,
                 trueDelta, drift, baseTaken, raised, flowVer, errVer,
                 sigVer, initCount, secVer>>

\* line 276: sl_sleeptimer_start_periodic_timer_ms; the status is only logged
hydro_enable_L276 ==
  /\ TaskRuns
  /\ pc = "L276"
  /\ \E status \in {"ok", "fail"} :
       /\ sc' = status
       /\ tmr_running' = IF status = "ok" THEN TRUE ELSE tmr_running
  /\ pc' = "L279"
  /\ UNCHANGED <<inited, s_pulses, s_last_pulses, s_lpm, s_enabled, s_error,
                 seconds_since_on, hwvars, sharedvars, on, readervars, isr, p,
                 passghost, callghost>>
  /\ UNCHANGED <<s_sink, s_sink_user, cb, user, sinkArgs, cc_out, nEdges,
                 edgesSince, trueDelta, drift, baseTaken, raised, flowVer,
                 errVer, sigVer, initCount, secVer>>

\* line 279: s_last_pulses = s_pulses
hydro_enable_L279 ==
  /\ TaskRuns
  /\ pc = "L279"
  /\ s_last_pulses' = s_pulses
  /\ edgesSince' = 0
  /\ drift' = 0
  /\ baseTaken' = TRUE
  /\ pc' = "L280"
  /\ UNCHANGED <<inited, s_pulses, s_lpm, s_enabled, s_error,
                 seconds_since_on, tmr_running, hwvars, sharedvars, on, sc,
                 readervars, isr, p, passghost, callghost>>
  /\ UNCHANGED <<s_sink, s_sink_user, cb, user, sinkArgs, cc_out, nEdges,
                 trueDelta, raised, flowVer, errVer, sigVer, initCount,
                 secVer>>

\* line 280: s_error = 0, then return
hydro_enable_L280 ==
  /\ TaskRuns
  /\ pc = "L280"
  /\ s_error' = 0
  /\ pc' = "idle"
  /\ ret' = "done"
  /\ lastOn' = OnName(on)
  /\ UNCHANGED <<inited, s_pulses, s_last_pulses, s_lpm, s_enabled,
                 seconds_since_on, tmr_running, hwvars, sharedvars, on, sc,
                 readervars, isr, p, passghost>>
  /\ UNCHANGED <<s_sink, s_sink_user, cb, user, sinkArgs, cc_out, nEdges,
                 edgesSince, trueDelta, drift, baseTaken, raised, flowVer,
                 errVer, sigVer, initCount, secVer>>

\* pwm_hw_stop, line 146: TIMER_Enable(PWM_TIMER, false)
pwm_hw_stop_L146 ==
  /\ TaskRuns
  /\ pc = "L146"
  /\ timer0_en' = FALSE
  /\ cc_out' \in (IF timer0_en THEN {"low", "high"} ELSE {cc_out})
  /\ pc' = "L148"
  /\ UNCHANGED <<inited, s_pulses, s_last_pulses, s_lpm, s_enabled, s_error,
                 seconds_since_on, tmr_running, route_en, pin_pwm, pin_low,
                 sharedvars, on, sc, readervars, isr, p, passghost, callghost>>
  /\ UNCHANGED <<s_sink, s_sink_user, cb, user, sinkArgs, nEdges, edgesSince,
                 trueDelta, drift, baseTaken, raised, flowVer, errVer,
                 sigVer, initCount, secVer>>

\* mutant of pwm_hw_stop_L148: the CC0 route stays enabled
pwm_hw_stop_L148_KeepsRoute ==
  /\ TaskRuns
  /\ pc = "L148"
  /\ pc' = "L150"
  /\ UNCHANGED <<inited, s_pulses, s_last_pulses, s_lpm, s_enabled, s_error,
                 seconds_since_on, tmr_running, timer0_en, route_en, pin_pwm, pin_low,
                 sharedvars, on, sc, readervars, isr, p, passghost, callghost>>
  /\ UNCHANGED <<s_sink, s_sink_user, cb, user, sinkArgs, cc_out, nEdges, edgesSince,
                 trueDelta, drift, baseTaken, raised, flowVer, errVer,
                 sigVer, initCount, secVer>>

\* pwm_hw_stop, line 148: ROUTEEN &= ~CC0PEN
pwm_hw_stop_L148 ==
  /\ TaskRuns
  /\ pc = "L148"
  /\ route_en' = FALSE
  /\ cc_out' = "low"
  /\ pc' = "L150"
  /\ UNCHANGED <<inited, s_pulses, s_last_pulses, s_lpm, s_enabled, s_error,
                 seconds_since_on, tmr_running, timer0_en, pin_pwm, pin_low,
                 sharedvars, on, sc, readervars, isr, p, passghost, callghost>>
  /\ UNCHANGED <<s_sink, s_sink_user, cb, user, sinkArgs, nEdges, edgesSince,
                 trueDelta, drift, baseTaken, raised, flowVer, errVer,
                 sigVer, initCount, secVer>>

\* pwm_hw_stop, line 150: GPIO_PinOutClear(PUMP_PIN_PWM)
pwm_hw_stop_L150 ==
  /\ TaskRuns
  /\ pc = "L150"
  /\ pin_pwm' = 0
  /\ pc' = "L162"
  /\ UNCHANGED <<inited, s_pulses, s_last_pulses, s_lpm, s_enabled, s_error,
                 seconds_since_on, tmr_running, timer0_en, route_en, pin_low,
                 sharedvars, on, sc, readervars, isr, p, passghost, callghost>>
  /\ UNCHANGED <<s_sink, s_sink_user, cb, user, sinkArgs, cc_out, nEdges,
                 edgesSince, trueDelta, drift, baseTaken, raised, flowVer,
                 errVer, sigVer, initCount, secVer>>

\* pump_on(false), lines 162-163: I1A = 0, I1B = 0
pump_on_L162 ==
  /\ TaskRuns
  /\ pc = "L162"
  /\ pin_pwm' = 0
  /\ pin_low' = 0
  /\ pc' = "L283"
  /\ UNCHANGED <<inited, s_pulses, s_last_pulses, s_lpm, s_enabled, s_error,
                 seconds_since_on, tmr_running, timer0_en, route_en,
                 sharedvars, on, sc, readervars, isr, p, passghost, callghost>>
  /\ UNCHANGED <<s_sink, s_sink_user, cb, user, sinkArgs, cc_out, nEdges,
                 edgesSince, trueDelta, drift, baseTaken, raised, flowVer,
                 errVer, sigVer, initCount, secVer>>

\* mutant of hydro_enable_L283: only s_pwm_tmr is stopped, s_sample_tmr runs on
hydro_enable_L283_KeepsSampling ==
  /\ TaskRuns
  /\ pc = "L283"
  /\ pc' = "L285"
  /\ UNCHANGED <<inited, s_pulses, s_last_pulses, s_lpm, s_enabled, s_error,
                 seconds_since_on, tmr_running, hwvars, sharedvars, on, sc,
                 readervars, isr, p, passghost, callghost>>
  /\ UNCHANGED <<s_sink, s_sink_user, cb, user, sinkArgs, cc_out, nEdges,
                 edgesSince, trueDelta, drift, baseTaken, raised, flowVer,
                 errVer, sigVer, initCount, secVer>>

\* lines 283-284: stop s_pwm_tmr (never started) and s_sample_tmr
hydro_enable_L283 ==
  /\ TaskRuns
  /\ pc = "L283"
  /\ tmr_running' = FALSE
  /\ pc' = "L285"
  /\ UNCHANGED <<inited, s_pulses, s_last_pulses, s_lpm, s_enabled, s_error,
                 seconds_since_on, hwvars, sharedvars, on, sc, readervars,
                 isr, p, passghost, callghost>>
  /\ UNCHANGED <<s_sink, s_sink_user, cb, user, sinkArgs, cc_out, nEdges,
                 edgesSince, trueDelta, drift, baseTaken, raised, flowVer,
                 errVer, sigVer, initCount, secVer>>

\* line 285: GPIO_PinOutClear(PUMP_PIN_PWM), then return
hydro_enable_L285 ==
  /\ TaskRuns
  /\ pc = "L285"
  /\ pin_pwm' = 0
  /\ pc' = "idle"
  /\ ret' = "done"
  /\ lastOn' = OnName(on)
  /\ UNCHANGED <<inited, s_pulses, s_last_pulses, s_lpm, s_enabled, s_error,
                 seconds_since_on, tmr_running, timer0_en, route_en, pin_low,
                 sharedvars, on, sc, readervars, isr, p, passghost>>
  /\ UNCHANGED <<s_sink, s_sink_user, cb, user, sinkArgs, cc_out, nEdges,
                 edgesSince, trueDelta, drift, baseTaken, raised, flowVer,
                 errVer, sigVer, initCount, secVer>>

\* ---- sample_cb (sleeptimer interrupt) -------------------------------------

\* mutant of NewBaseline: line 207 is missing, the baseline stays
NewBaseline_Stale(snap, last) == last

\* line 207: s_last_pulses = p
NewBaseline(snap, last) == snap

\* lines 202-212: snapshot under __disable_irq, delta, baseline, s_lpm
sample_cb_L202 ==
  /\ isr = "none"
  /\ tmr_running
  /\ nPass < MaxPasses
  /\ p' = s_pulses
  /\ s_lpm' = Delta(s_pulses, s_last_pulses)
  /\ s_last_pulses' = NewBaseline(s_pulses, s_last_pulses)
  /\ trueDelta' = edgesSince
  /\ edgesSince' = 0
  /\ drift' = drift + Delta(s_pulses, s_last_pulses) - edgesSince
  /\ raised' = 0
  /\ UNCHANGED sinkArgs
  /\ isr' = "L216"
  /\ nPass' = nPass + 1
  /\ prevWrote' = wrote
  /\ wrote' = NoWrite
  /\ UNCHANGED <<inited, s_pulses, s_enabled, s_error, seconds_since_on,
                 tmr_running, hwvars, sharedvars, pc, on, sc, readervars,
                 sinceEn, zeroFlow, evalEnabled, published, callghost>>
  /\ UNCHANGED <<s_sink, s_sink_user, cb, user, cc_out, nEdges, baseTaken,
                 flowVer, errVer, sigVer, initCount, secVer>>

\* mutant of NextSeconds: no cap, the uint8_t counter wraps
NextSeconds_NoCap(en, secs) == IF en THEN (secs + 1) % 256 ELSE 0

\* lines 216-220: the new value of seconds_since_on
NextSeconds(en, secs) ==
  IF en THEN (IF secs < SecondsCap THEN secs + 1 ELSE secs) ELSE 0

\* lines 215-220: advance or reset seconds_since_on
sample_cb_L216 ==
  /\ isr = "L216"
  /\ seconds_since_on' = NextSeconds(s_enabled, seconds_since_on)
  /\ isr' = "L223"
  /\ UNCHANGED <<inited, s_pulses, s_last_pulses, s_lpm, s_enabled, s_error,
                 tmr_running, hwvars, sharedvars, pc, on, sc, readervars, p,
                 passghost, callghost>>
  /\ UNCHANGED <<s_sink, s_sink_user, cb, user, sinkArgs, cc_out, nEdges,
                 edgesSince, trueDelta, drift, baseTaken, raised, flowVer,
                 errVer, sigVer, initCount>>
  /\ secVer' = nPass

\* lines 223-232: the argument of shared_set_err, NoWrite when no branch is taken
FaultWrite(en, secs, dp) ==
  IF en /\ secs >= s_min_after_s /\ BelowMin(dp) THEN ErrDryRun
  ELSE IF ~en THEN ErrOk
  ELSE IF ~en /\ AboveMin(dp) THEN ErrUnexpectedFlow
  ELSE NoWrite

\* mutant of sample_cb_L223: the pass switches the subsystem off on a dry run
sample_cb_L223_ShutsOff ==
  /\ isr = "L223"
  /\ LET w == FaultWrite(s_enabled, seconds_since_on, s_lpm)
     IN /\ wrote' = w
        /\ g_err' = IF w = NoWrite THEN g_err ELSE w
  /\ evalEnabled' = s_enabled
  /\ s_enabled' = (/\ s_enabled
                   /\ FaultWrite(s_enabled, seconds_since_on, s_lpm)
                        # ErrDryRun)
  /\ errVer' = nPass
  /\ isr' = "L235"
  /\ UNCHANGED <<inited, s_pulses, samplervars, s_error,
                 tmr_running, hwvars, g_flow_x100, extsig, pc, on, sc,
                 readervars, nPass, sinceEn, zeroFlow, prevWrote, published,
                 callghost>>
  /\ UNCHANGED <<s_sink, s_sink_user, cb, user, sinkArgs, cc_out, nEdges,
                 edgesSince, trueDelta, drift, baseTaken, raised, flowVer,
                 sigVer, initCount, secVer>>

\* lines 223-232: fault evaluation and shared_set_err
sample_cb_L223 ==
  /\ isr = "L223"
  /\ LET w == FaultWrite(s_enabled, seconds_since_on, s_lpm)
     IN /\ wrote' = w
        /\ g_err' = IF w = NoWrite THEN g_err ELSE w
  /\ evalEnabled' = s_enabled
  /\ errVer' = nPass
  /\ isr' = "L235"
  /\ UNCHANGED <<inited, s_pulses, samplervars, s_enabled, s_error,
                 tmr_running, hwvars, g_flow_x100, extsig, pc, on, sc,
                 readervars, nPass, sinceEn, zeroFlow, prevWrote, published,
                 callghost>>
  /\ UNCHANGED <<s_sink, s_sink_user, cb, user, sinkArgs, cc_out, nEdges,
                 edgesSince, trueDelta, drift, baseTaken, raised, flowVer,
                 sigVer, initCount, secVer>>

\* line 244: the arguments of the sink call; lpm is kept in hundredths of a
\* L/min, the uint16_t / int division leaves whole L/min
SinkCall(fx100, pulses, e, u) == <<(fx100 \div 100) * 100, pulses, e, u>>

\* mutant of sample_cb_L235: the sink is called with the flow write, before
\* the external signal is raised
sample_cb_L235_SinkFirst ==
  /\ isr = "L235"
  /\ g_flow_x100' \in Uint16Cast(FlowX100(s_lpm))
  /\ flowVer' = nPass
  /\ sinkArgs' = IF s_sink # 0
                  THEN SinkCall(g_flow_x100', p, g_err, s_sink_user)
                  ELSE <<>>
  /\ isr' = "L239"
  /\ UNCHANGED <<inited, s_pulses, samplervars, s_enabled, s_error,
                 tmr_running, hwvars, g_err, extsig, pc, on, sc, readervars,
                 passghost, callghost>>
  /\ UNCHANGED <<s_sink, s_sink_user, cb, user, cc_out, nEdges,
                 edgesSince, trueDelta, drift, baseTaken, raised, errVer,
                 sigVer, initCount, secVer>>

\* lines 235-236: shared_set_flow_x100
sample_cb_L235 ==
  /\ isr = "L235"
  /\ g_flow_x100' \in Uint16Cast(FlowX100(s_lpm))
  /\ flowVer' = nPass
  /\ isr' = "L239"
  /\ UNCHANGED <<inited, s_pulses, samplervars, s_enabled, s_error,
                 tmr_running, hwvars, g_err, extsig, pc, on, sc, readervars,
                 passghost, callghost>>
  /\ UNCHANGED <<s_sink, s_sink_user, cb, user, sinkArgs, cc_out, nEdges,
                 edgesSince, trueDelta, drift, baseTaken, raised, errVer,
                 sigVer, initCount, secVer>>

\* bitwise or of two signal masks over the bits SIG_FLOW, SIG_ERR
SigOr(a, b) ==
  (IF (a % 2 = 1) \/ (b % 2 = 1) THEN SIG_FLOW ELSE 0)
  + (IF ((a \div 2) % 2 = 1) \/ ((b \div 2) % 2 = 1) THEN SIG_ERR ELSE 0)

\* bitwise and of two signal masks over the same bits
SigAnd(a, b) ==
  (IF (a % 2 = 1) /\ (b % 2 = 1) THEN SIG_FLOW ELSE 0)
  + (IF ((a \div 2) % 2 = 1) /\ ((b \div 2) % 2 = 1) THEN SIG_ERR ELSE 0)

\* mutant of sample_cb_L239: the signal is raised only for a registered sink
sample_cb_L239_OnlyWithSink ==
  /\ isr = "L239"
  /\ extsig' = IF s_sink # 0 THEN SigOr(extsig, SigOr(SIG_FLOW, SIG_ERR))
                ELSE extsig
  /\ raised' = IF s_sink # 0 THEN raised + 1 ELSE raised
  /\ sigVer' = IF s_sink # 0 THEN nPass ELSE sigVer
  /\ isr' = "L243"
  /\ UNCHANGED <<inited, s_pulses, samplervars, s_enabled, s_error,
                 tmr_running, hwvars, g_flow_x100, g_err, pc, on, sc,
                 readervars, passghost, callghost>>
  /\ UNCHANGED <<s_sink, s_sink_user, cb, user, sinkArgs, cc_out, nEdges,
                 edgesSince, trueDelta, drift, baseTaken, flowVer, errVer,
                 initCount, secVer>>

\* lines 239-240: sl_bt_external_signal(SIG_FLOW | SIG_ERR)
sample_cb_L239 ==
  /\ isr = "L239"
  /\ extsig' = SigOr(extsig, SigOr(SIG_FLOW, SIG_ERR))
  /\ raised' = raised + 1
  /\ sigVer' = nPass
  /\ isr' = "L243"
  /\ UNCHANGED <<inited, s_pulses, samplervars, s_enabled, s_error,
                 tmr_running, hwvars, g_flow_x100, g_err, pc, on, sc,
                 readervars, passghost, callghost>>
  /\ UNCHANGED <<s_sink, s_sink_user, cb, user, sinkArgs, cc_out, nEdges,
                 edgesSince, trueDelta, drift, baseTaken, flowVer, errVer,
                 initCount, secVer>>

\* lines 243-245: sink fan-out; the pass has published its telemetry
sample_cb_L243 ==
  /\ isr = "L243"
  /\ isr' = "L246"
  /\ sinkArgs' = IF s_sink # 0
                  THEN SinkCall(g_flow_x100, p, g_err, s_sink_user)
                  ELSE <<>>
  /\ sinceEn' = IF sinceEn < MaxPeriods THEN sinceEn + 1 ELSE sinceEn
  /\ zeroFlow' = (zeroFlow /\ s_lpm = 0)
  /\ published' = published \cup {<<g_flow_x100, g_err>>}
  /\ UNCHANGED <<inited, s_pulses, samplervars, s_enabled, s_error,
                 tmr_running, hwvars, sharedvars, pc, on, sc, readervars,
                 nPass, wrote, prevWrote, evalEnabled, callghost>>
  /\ UNCHANGED <<s_sink, s_sink_user, cb, user, cc_out, nEdges, edgesSince,
                 trueDelta, drift, baseTaken, raised, flowVer, errVer,
                 sigVer, initCount, secVer>>

\* line 246: return from the interrupt, the frame of the sink call is gone
sample_cb_L246 ==
  /\ isr = "L246"
  /\ isr' = "none"
  /\ sinkArgs' = <<>>
  /\ UNCHANGED <<inited, s_pulses, samplervars, s_enabled, s_error,
                 tmr_running, hwvars, sharedvars, pc, on, sc, readervars,
                 passghost, callghost>>
  /\ UNCHANGED <<s_sink, s_sink_user, cb, user, cc_out, nEdges, edgesSince,
                 trueDelta, drift, baseTaken, raised, flowVer, errVer,
                 sigVer, initCount, secVer>>

\* ---- sl_bt_on_event: sl_bt_evt_system_external_signal_id -----------------

\* lines 307-310: the stack delivers and clears the pending bits
ext_signal_L307 ==
  /\ TaskRuns
  /\ pc = "idle"
  /\ extsig # 0
  /\ extsig' = 0
  /\ pc' = IF SigAnd(extsig, SIG_SAMPLE) # 0 THEN "L312" ELSE "idle"
  /\ readDone' = FALSE
  /\ UNCHANGED <<inited, s_pulses, samplervars, s_enabled, s_error,
                 tmr_running, hwvars, g_flow_x100, g_err, on, sc, flow, err,
                 isr, passghost, callghost>>
  /\ UNCHANGED <<s_sink, s_sink_user, cb, user, sinkArgs, cc_out, nEdges,
                 edgesSince, trueDelta, drift, baseTaken, raised, flowVer,
                 errVer, sigVer, initCount, secVer>>

\* line 312: flow = shared_get_flow_x100()
ext_signal_L312 ==
  /\ TaskRuns
  /\ pc = "L312"
  /\ flow' = g_flow_x100
  /\ pc' = "L313"
  /\ UNCHANGED <<inited, s_pulses, samplervars, s_enabled, s_error,
                 tmr_running, hwvars, sharedvars, on, sc, err, readDone, isr,
                 passghost, callghost>>
  /\ UNCHANGED <<s_sink, s_sink_user, cb, user, sinkArgs, cc_out, nEdges,
                 edgesSince, trueDelta, drift, baseTaken, raised, flowVer,
                 errVer, sigVer, initCount, secVer>>

\* line 313: err = shared_get_err(); the pair is then handed to the notifiers
ext_signal_L313 ==
  /\ TaskRuns
  /\ pc = "L313"
  /\ err' = g_err
  /\ readDone' = TRUE
  /\ pc' = "idle"
  /\ UNCHANGED <<inited, s_pulses, samplervars, s_enabled, s_error,
                 tmr_running, hwvars, sharedvars, on, sc, flow, isr,
                 passghost, callghost>>
  /\ UNCHANGED <<s_sink, s_sink_user, cb, user, sinkArgs, cc_out, nEdges,
                 edgesSince, trueDelta, drift, baseTaken, raised, flowVer,
                 errVer, sigVer, initCount, secVer>>

\* ---- hydro_set_sink -------------------------------------------------------

\* the sinks a caller can pass, 0 is NULL; each comes with its own user pointer
SinkIds == {0, 1}

\* caller of hydro_set_sink (app_init registers hydro_ble_sink)
hydro_set_sink_call ==
  /\ TaskRuns
  /\ pc = "idle"
  /\ \E k \in SinkIds : cb' = k /\ user' = UserOf(k)
  /\ pc' = "L299"
  /\ UNCHANGED <<inited, s_pulses, samplervars, s_enabled, s_error,
                 tmr_running, hwvars, sharedvars, on, sc, readervars, isr,
                 passghost, callghost>>
  /\ UNCHANGED <<s_sink, s_sink_user, sinkArgs, cc_out, nEdges, edgesSince,
                 trueDelta, drift, baseTaken, raised, flowVer, errVer,
                 sigVer, initCount, secVer>>

\* line 299: s_sink = cb
hydro_set_sink_L299 ==
  /\ TaskRuns
  /\ pc = "L299"
  /\ s_sink' = cb
  /\ pc' = "L300"
  /\ UNCHANGED <<inited, s_pulses, samplervars, s_enabled, s_error,
                 tmr_running, hwvars, sharedvars, on, sc, readervars, isr,
                 passghost, callghost>>
  /\ UNCHANGED <<s_sink_user, cb, user, sinkArgs, cc_out, nEdges, edgesSince,
                 trueDelta, drift, baseTaken, raised, flowVer, errVer,
                 sigVer, initCount, secVer>>

\* line 300: s_sink_user = user, then return (the parameters go out of scope)
hydro_set_sink_L300 ==
  /\ TaskRuns
  /\ pc = "L300"
  /\ s_sink_user' = user
  /\ cb' = 0
  /\ user' = 0
  /\ pc' = "idle"
  /\ UNCHANGED <<inited, s_pulses, samplervars, s_enabled, s_error,
                 tmr_running, hwvars, sharedvars, on, sc, readervars, isr,
                 passghost, callghost>>
  /\ UNCHANGED <<s_sink, sinkArgs, cc_out, nEdges, edgesSince, trueDelta,
                 drift, baseTaken, raised, flowVer, errVer, sigVer,
                 initCount, secVer>>

\* ---- accessors -----------------------------------------------------------

\* hydro_get_pulse_count
hydro_get_pulse_count == s_pulses

\* hydro_is_enabled
hydro_is_enabled == s_enabled

\* no hydro_enable call is in progress
NoEnableCall ==
  pc \notin {"L268", "L158", "L159", "L276", "L279", "L280",
             "L146", "L148", "L150", "L162", "L283", "L285"}

\* a hydro_enable call is past its early return of line 268
InEnable ==
  pc \in {"L158", "L159", "L276", "L279", "L280",
          "L146", "L148", "L150", "L162", "L283", "L285"}

\* level on the PWM pin: TIMER0 CC0 while routed, the GPIO data-out bit otherwise
PinLevel ==
  IF route_en
    THEN (IF timer0_en THEN "pwm" ELSE cc_out)
    ELSE (IF pin_pwm = 0 THEN "low" ELSE "high")

\* ---- specification ------------------------------------------------------

TaskStep ==
  \/ hydro_init
  \/ hydro_init_return
  \/ hydro_set_sink_L299
  \/ hydro_set_sink_L300
  \/ hydro_enable_L268
  \/ pump_on_L158
  \/ pwm_hw_start
  \/ hydro_enable_L276
  \/ hydro_enable_L279
  \/ hydro_enable_L280
  \/ pwm_hw_stop_L146
  \/ pwm_hw_stop_L148
  \/ pwm_hw_stop_L150
  \/ pump_on_L162
  \/ hydro_enable_L283
  \/ hydro_enable_L285
  \/ ext_signal_L312
  \/ ext_signal_L313

IsrStep ==
  \/ sample_cb_L216
  \/ sample_cb_L223
  \/ sample_cb_L235
  \/ sample_cb_L239
  \/ sample_cb_L243
  \/ sample_cb_L246

Next ==
  \/ hydro_init_call
  \/ hydro_set_sink_call
  \/ hydro_enable_call
  \/ flow_irq_cb
  \/ sample_cb_L202
  \/ ext_signal_L307
  \/ TaskStep
  \/ IsrStep

Spec == Init /\ [][Next]_vars

\* the same program, started in an enabled period with the counter at its wrap
WideSpec == WideInit /\ [][Next]_vars

\* the same program, started with an observer already registered
SwapSpec == SwapInit /\ [][Next]_vars

\* the same program, started late in a long enabled interval
LongRunSpec == LongRunInit /\ [][Next]_vars

\* Scheduling: a started handler runs on (the CPU executes the next statement),
\* a running sleeptimer fires, and the stack delivers a pending external signal.
\* Commands to hydro_enable and flow edges come from outside and are not forced.
FairSpec ==
  /\ Spec
  /\ WF_vars(TaskStep)
  /\ WF_vars(IsrStep)
  /\ WF_vars(sample_cb_L202)
  /\ WF_vars(ext_signal_L307)

\* ---- claims ---------------------------------------------------------------

\* C1 (no torn telemetry): whenever the external-signal handler has fetched
\* flow (shared_get_flow_x100) and then fault (shared_get_err), the pair it
\* holds is a pair that one single sampling pass exposed.
C1_NoTornTelemetry == readDone => <<flow, err>> \in published

\* a pass has completed and no other is running: what the task context sees
PassDone == isr = "none" /\ nPass >= 1

\* C2 (dry-run onset): after hydro_enable(true), with zero pulses in every
\* sampling period, the fault exposed by the pass of period 0, 1, 2 is Ok and
\* by the pass of period 3, 4, 5 is DryRun; and a pass writes DryRun only when
\* the pump is enabled, the grace period has elapsed and flow is below the
\* threshold.  Period k is the (k+1)-th pass since the enable.
C2_DryRunOnset ==
  /\ (s_enabled /\ zeroFlow /\ isr = "none") =>
       /\ (sinceEn \in 1..s_min_after_s => g_err = ErrOk)
       /\ (sinceEn \in (s_min_after_s + 1)..(2 * s_min_after_s) => g_err = ErrDryRun)
  /\ (PassDone /\ wrote = ErrDryRun) =>
       (evalEnabled /\ seconds_since_on >= s_min_after_s /\ BelowMin(s_lpm))

\* C3 (grace period masking): after every transition to enabled, the fault
\* exposed after each of the first three sampling passes is Ok, whatever the
\* measured flow.
C3_GraceMasking ==
  (s_enabled /\ isr = "none" /\ sinceEn \in 1..s_min_after_s) => g_err = ErrOk

\* C4 (recovery without debounce): when a pass published DryRun and the next
\* pass, still enabled and past the grace period, measures flow at or above
\* the threshold, the fault exposed after that next pass is Ok.
C4_Recovery ==
  (PassDone /\ prevWrote = ErrDryRun /\ evalEnabled
     /\ seconds_since_on >= s_min_after_s /\ ~BelowMin(s_lpm))
  => g_err = ErrOk

\* C5 (unexpected flow): a pass that evaluates the fault with the subsystem
\* disabled exposes UnexpectedFlow when its pulse delta is positive and Ok
\* when the delta is zero.
C5_UnexpectedFlow ==
  (PassDone /\ ~evalEnabled) =>
     g_err = (IF s_lpm > 0 THEN ErrUnexpectedFlow ELSE ErrOk)

\* C6 (configuration failure): when hydro_enable(true) has returned and its
\* start of the sampling timer failed, EnabledState is false and the pump
\* actuator is off.
C6_StartFailureFallsBack ==
  (pc = "idle" /\ sc = "fail") => (~s_enabled /\ ~timer0_en /\ ~route_en)

\* C7 (disable is synchronous and final): once hydro_enable(false) has
\* returned and until a later hydro_enable(true) sets EnabledState, the PWM
\* generator is stopped and unrouted, both pump lines are low, the sampling
\* timer is stopped and no sampling pass is running.
C7_DisableFinal ==
  (lastOn = "off" /\ ~s_enabled) =>
     /\ ~timer0_en
     /\ ~route_en
     /\ pin_pwm = 0
     /\ pin_low = 0
     /\ ~tmr_running
     /\ isr = "none"

\* C7 witness: a disable that followed sampling passes has returned
C7_Witness ==
  pc = "idle" /\ lastOn = "off" /\ ret = "done" /\ nPass >= 1 /\ ~s_enabled

\* C8 (fault clears on enable): after hydro_enable(true) has enabled the
\* subsystem and before any sampling pass has completed, shared_get_err
\* returns Ok.
C8_FaultClearsOnEnable ==
  (pc = "idle" /\ isr = "none" /\ s_enabled /\ sinceEn = 0) => g_err = ErrOk

\* C9 (fault self-clears after disable): when the subsystem is disabled with
\* the exposed fault DryRun, the fault eventually becomes a non-DryRun value.
C9_FaultSelfClears ==
  (pc = "idle" /\ ~s_enabled /\ g_err = ErrDryRun) ~> (g_err # ErrDryRun)

\* C10 (idempotent enable/disable): a hydro_enable call whose argument is the
\* argument of the call that returned just before it takes the early return
\* and changes nothing: EnabledState, actuator, sampling timer, baseline,
\* fault, flow and elapsed counter stay as they were.
C10_Idempotent ==
  [][(pc = "L268" /\ lastOn = OnName(on) /\ pc' # pc) =>
       /\ pc' = "idle"
       /\ UNCHANGED <<s_enabled, hwvars, tmr_running, s_pulses, samplervars,
                      s_error, sharedvars, sc>>]_vars

\* C10 witness: a second hydro_enable(true) in a row has returned while the
\* pump runs and sampling is scheduled
C10_Witness ==
  pc = "idle" /\ ret = "noop" /\ lastOn = "on" /\ s_enabled /\ tmr_running
    /\ timer0_en


\* ---- pulse counting and rate ----------------------------------------------

\* C11: the value hydro_get_pulse_count returns is changed by nothing but an
\* edge interrupt, and each edge interrupt adds exactly 1 to it modulo the
\* width of the counter; passes, enable and disable calls, registrations and
\* reads leave it alone, so it never decreases except by wrapping.
C11_MonotonicPulseCount ==
  [][/\ (hydro_get_pulse_count' # hydro_get_pulse_count => nEdges' = nEdges + 1)
     /\ (nEdges' # nEdges =>
           hydro_get_pulse_count' = (hydro_get_pulse_count + 1) % PulseMod)]_vars

\* edges were counted through the wrap, around a disable call and a pass
C11_Witness ==
  /\ nEdges = 2
  /\ hydro_get_pulse_count = 1
  /\ lastOn = "off"
  /\ isr = "none"
  /\ trueDelta > 0

\* distance of x from zero
Abs(x) == IF x < 0 THEN -x ELSE x

\* r is 100 * d / 5.71 rounded to the nearest integer
IsRounded(r, d) ==
  2 * Abs(FLOW_HZ_PER_LPM_X100 * r - 100 * 100 * d) <= FLOW_HZ_PER_LPM_X100

\* C12: once a pass has published its flow, the published 16-bit value is
\* round(100 * D / 5.71) for the pulse delta D of that pass, whatever D is,
\* with no truncation and no wrap.
C12_RateComputation == (flowVer = nPass) => IsRounded(g_flow_x100, s_lpm)

\* ---- observer and wake signal -----------------------------------------------

\* C13: a pass that finds an observer registered has called it once when it
\* returns, with the flow rate this pass computed, the pulse count this pass
\* snapshotted, the fault code of this pass and the registered user pointer;
\* a pass that finds no observer has called nothing.
C13_ObserverDelivery ==
  (isr = "L246") =>
    IF s_sink # 0
      THEN /\ Len(sinkArgs) = 4
           /\ IsRounded(sinkArgs[1], s_lpm)
           /\ sinkArgs[2] = p
           /\ sinkArgs[3] = g_err
           /\ (wrote # NoWrite => sinkArgs[3] = wrote)
           /\ sinkArgs[4] = s_sink_user
      ELSE sinkArgs = <<>>


C15_IdempotentInit ==
  /\ [](initCount <= 1)
  /\ [][(pc \in {"L256", "L256ret"} /\ inited /\ pc' # pc) =>
          /\ pc' \in {"L256ret", "idle"}
          /\ UNCHANGED <<inited, initCount, s_pulses, nEdges, samplervars,
                         s_enabled, s_error, tmr_running, hwvars, cc_out,
                         sharedvars, s_sink, s_sink_user>>]_vars

\* a repeated call took the early return while the pump runs and edges are in
C15_Witness ==
  /\ pc = "L256ret"
  /\ initCount = 1
  /\ s_enabled
  /\ timer0_en
  /\ tmr_running
  /\ s_pulses > 0

\* ---- actuator ---------------------------------------------------------------

\* C16: whenever TIMER0 is stopped or its route to the pin is removed, the
\* PWM pin is already low: no step of the stop path leaves the generator
\* halted with the pin still held at the driven level.
C16_GlitchFreeStop == (~timer0_en \/ ~route_en) => PinLevel = "low"

\* ---- enable transition ------------------------------------------------------

\* C17: from a transition to enabled until the first pass of that enabled
\* interval starts, seconds_since_on is 0.
C17_ElapsedResetOnEnable ==
  (s_enabled /\ sinceEn = 0 /\ isr = "none") => seconds_since_on = 0

\* C18: no pass runs in an enabled interval before line 279 has set the
\* baseline s_last_pulses of that interval, so the first delta counts only
\* edges that arrived after the baseline was taken.
C18_BaselineBeforeFirstPass == (s_enabled /\ isr # "none") => baseTaken

\* ---- pulse accounting -------------------------------------------------------

\* C19: the deltas the passes computed since the baseline add up to the edges
\* that arrived between the baseline and the latest snapshot, and the edges
\* that arrived since the latest snapshot are exactly what the next pass will
\* compute: no edge is dropped or counted twice, however the passes and the
\* edges interleave.
C19_PulseConservation ==
  /\ drift = 0
  /\ (isr = "none" => Delta(s_pulses, s_last_pulses) = edgesSince)

\* two passes of one enabled interval, the second one counted an edge
C19_Witness ==
  /\ s_enabled
  /\ baseTaken
  /\ sinceEn >= 2
  /\ nEdges = 2
  /\ trueDelta = 1
  /\ isr = "none"

\* C20: the delta a pass computes equals the number of edges that arrived
\* since the previous snapshot, also when the counter wrapped in between.
C20_WrapSafeDelta == s_lpm = trueDelta

\* the second pass after the start snapshotted 1 after the counter wrapped
C20_Witness ==
  /\ nPass = MaxPasses
  /\ p = 1
  /\ trueDelta = 2
  /\ isr = "none"


\* ---- elapsed counter --------------------------------------------------------

\* C21: seconds_since_on never exceeds its cap of 250, and over every step
\* that starts and ends with the subsystem enabled it does not decrease; so
\* once it has reached the grace period it stays at or above it while the
\* subsystem stays enabled, and the 8-bit counter never wraps.
C21_ElapsedSaturates ==
  /\ [](seconds_since_on <= SecondsCap)
  /\ [][(s_enabled /\ s_enabled') =>
          /\ seconds_since_on' >= seconds_since_on
          /\ (seconds_since_on >= s_min_after_s =>
                seconds_since_on' >= s_min_after_s)]_vars

\* three more passes ran enabled from two below the cap: the counter stands
\* at the cap and the dry-run fault is still reported
C21_Witness ==
  /\ seconds_since_on = SecondsCap
  /\ nPass = MaxPasses
  /\ s_enabled
  /\ isr = "none"
  /\ g_err = ErrDryRun


\* ---- order of the steps of a pass ---------------------------------------------

\* the steps up to the signal: snapshot and delta, then the elapsed counter,
\* then the fault, then the flow, then the external signal
EarlySteps ==
  /\ secVer <= nPass
  /\ nPass <= secVer + 1
  /\ errVer <= secVer
  /\ flowVer <= errVer
  /\ sigVer <= flowVer

C23_EnabledSingleWriter ==
  /\ [][s_enabled' # s_enabled =>
          (pc = "L268" /\ isr = "none" /\ s_enabled' = on)]_vars
  /\ [](InEnable => (hydro_is_enabled = on))
  /\ [](~InEnable => (hydro_is_enabled <=> lastOn = "on"))

\* passes ran, edges came in, an observer is registered, and the latest call
\* hydro_enable(true) was a no-op on an enabled subsystem
C23_Witness ==
  /\ pc = "idle"
  /\ ret = "noop"
  /\ lastOn = "on"
  /\ hydro_is_enabled
  /\ nPass >= 1
  /\ nEdges >= 1
  /\ s_sink # 0


\* ---- observer registration ----------------------------------------------------

\* C24: every observer invocation receives the user pointer that was
\* registered together with the invoked callback, also when a pass fires
\* while hydro_set_sink replaces one registration by another.
C24_AtomicRegistration ==
  (isr = "L246" /\ sinkArgs # <<>>) => sinkArgs[4] = UserOf(s_sink)


\* ---- actuator and sampling schedule -----------------------------------------

\* C25: while no hydro_enable call is in progress, TIMER0 runs and is routed
\* to the I1A pin exactly when s_enabled is true, the pin carries the PWM
\* waveform then and is low otherwise; the I1B pin is low in every state.
C25_ActuatorFollowsEnabled ==
  /\ pin_low = 0
  /\ (NoEnableCall => ((timer0_en /\ route_en) <=> s_enabled))
  /\ (NoEnableCall => (PinLevel = IF s_enabled THEN "pwm" ELSE "low"))

\* the signal handler runs after a disable that followed an enabled interval
\* with edges; the pump is not driven
C25_Witness ==
  /\ pc = "L313"
  /\ ~s_enabled
  /\ lastOn = "off"
  /\ PinLevel = "low"
  /\ nEdges >= 1

\* C26: the sampling timer is started only in line 276 of an enabling call and
\* is never running when that line is reached, and it is stopped whenever a
\* disabling call has returned: there is never more than one schedule.
C26_SingleSchedule ==
  /\ [][(tmr_running' /\ ~tmr_running) => (pc = "L276" /\ s_enabled)]_vars
  /\ [](pc = "L276" => ~tmr_running)
  /\ []((NoEnableCall /\ ~s_enabled) => ~tmr_running)

\* the timer runs in a second enabled interval: the elapsed counter was
\* advanced by a pass of an earlier interval, none of this interval has run
C26_Witness ==
  /\ pc = "idle"
  /\ s_enabled
  /\ tmr_running
  /\ lastOn = "on"
  /\ sinceEn = 0
  /\ seconds_since_on >= 1

====
